---- MODULE Spec2Model ----
(***************************************************************************)
(* CFL-reachability solver CFLR::solve() of Assignment-4-CFLR/CFLR.cpp.    *)
(*                                                                         *)
(* The state is the labelled graph, the worklist and the position of       *)
(* solve(): before the seeding loop ("seed"), in the drain loop ("drain"), *)
(* returned ("done").  One action is one seeding loop, one iteration of    *)
(* the drain loop, or the exit of the drain loop.                          *)
(*                                                                         *)
(* An edge CFLREdge(src, dst, label) is the tuple <<src, dst, label>>.     *)
(***************************************************************************)
EXTENDS Integers, FiniteSets, Sequences, Bags

VARIABLES
    graph,      \* the edge set held by *graph (both adjacency maps index it)
    workList,   \* the pending edges of workList, as a bag
    pc,         \* position of solve(): "seed", "drain" or "done"
    g0,         \* history: the graph buildGraph() left before solve()
    pushed      \* history: how often each edge was pushed (counts capped)

vars == <<graph, workList, pc, g0, pushed>>

-----------------------------------------------------------------------------
(* Bounds of the model *)

\* arbitrary initial graphs use the nodes 0 .. NumNodes-1
NumNodes == 2
\* arbitrary initial graphs have at most this many edges
MaxInitEdges == 2
\* the push counters of the history variable stop counting here
PushCap == 2

Nodes == 0 .. (NumNodes - 1)

-----------------------------------------------------------------------------
(* Edge labels: enum EdgeLabel *)

Addr    == "Addr"
AddrBar == "AddrBar"
Copy    == "Copy"
CopyBar == "CopyBar"
Store   == "Store"
Load    == "Load"
PT      == "PT"
PTBar   == "PTBar"
PV      == "PV"
VP      == "VP"

Labels == {Addr, AddrBar, Copy, CopyBar, Store, Load, PT, PTBar, PV, VP}

CFLREdge(u, v, label) == <<u, v, label>>

\* every edge over a node set
EdgesOver(V) == V \X V \X Labels

\* the nodes an edge set mentions
NodesOf(g) == {e[1] : e \in g} \cup {e[2] : e \in g}

-----------------------------------------------------------------------------
(* CFLRGraph: membership, insertion and the two adjacency maps *)

hasEdge(g, u, v, label) == CFLREdge(u, v, label) \in g

graphAddEdge(g, u, v, label) == g \cup {CFLREdge(u, v, label)}

\* getSuccessorMap().count(v): v is a key of the forward map
succCount(g, v) == \E e \in g : e[1] = v

\* getPredecessorMap().count(u): u is a key of the reverse map
predCount(g, u) == \E e \in g : e[2] = u

\* getSuccessorMap()[v][label], empty when succs.count(label) is 0
succs(g, v, label) == {e[2] : e \in {x \in g : x[1] = v /\ x[3] = label}}

\* getPredecessorMap()[u][label], empty when preds.count(label) is 0
preds(g, u, label) == {e[1] : e \in {x \in g : x[2] = u /\ x[3] = label}}

-----------------------------------------------------------------------------
(* The worklist: push appends, pop removes one pending edge.  The order of *)
(* the pending edges is left open (FIFO and LIFO are both allowed), so the *)
(* model keeps the bag of pending edges and lets pop take any of them.     *)

push(wl, e) == wl (+) SetToBag({e})

pop(wl, e) == wl (-) SetToBag({e})

empty(wl) == BagToSet(wl) = {}

\* history of pushes, counting up to PushCap
notePush(ps, e) ==
    IF CopiesIn(e, ps) < PushCap THEN ps (+) SetToBag({e}) ELSE ps

-----------------------------------------------------------------------------
(* The solver state threaded through one iteration of the drain loop:      *)
(* graph, worklist, push history, and the graph after every completed call *)
(* of the insertion helper (snaps).                                        *)

SolverSt(g, wl, ps) == [graph |-> g, workList |-> wl, pushed |-> ps, snaps |-> <<>>]

\* the member of a one-element set.  The({F(s) : s \in {x}}) is F(x) with x
\* evaluated once: the lambda and the loops below hand one solver state on
\* from statement to statement
The(S) == CHOOSE r \in S : TRUE

\* graph->addEdge(u, v, label); workList.push(CFLREdge(u, v, label));
insertAndPush(st, u, v, label) ==
    [st EXCEPT !.graph    = graphAddEdge(st.graph, u, v, label),
               !.workList = push(st.workList, CFLREdge(u, v, label)),
               !.pushed   = notePush(st.pushed, CFLREdge(u, v, label))]

\* addEdge that forgets the CopyBar twin of a new Copy edge
addEdgeNoCopyBar(st, u, v, label) ==
    IF ~hasEdge(st.graph, u, v, label)
    THEN LET s1 == insertAndPush(st, u, v, label) IN
         IF label = PT /\ ~hasEdge(s1.graph, v, u, PTBar)
         THEN insertAndPush(s1, v, u, PTBar)
         ELSE s1
    ELSE st

\* addEdge that forgets the PTBar twin of a new PT edge
addEdgeNoPTBar(st, u, v, label) ==
    IF ~hasEdge(st.graph, u, v, label)
    THEN LET s1 == insertAndPush(st, u, v, label) IN
         IF label = Copy /\ ~hasEdge(s1.graph, v, u, CopyBar)
         THEN insertAndPush(s1, v, u, CopyBar)
         ELSE s1
    ELSE st

\* addEdge that inserts the twin with the endpoints of the edge, not swapped
addEdgeTwinNotSwapped(st, u, v, label) ==
    IF ~hasEdge(st.graph, u, v, label)
    THEN LET s1 == insertAndPush(st, u, v, label) IN
         IF label = PT /\ ~hasEdge(s1.graph, u, v, PTBar)
         THEN insertAndPush(s1, u, v, PTBar)
         ELSE IF label = Copy /\ ~hasEdge(s1.graph, u, v, CopyBar)
         THEN insertAndPush(s1, u, v, CopyBar)
         ELSE s1
    ELSE st

\* addEdge without the membership test: inserts and pushes on every call
addEdgeUnguarded(st, u, v, label) ==
    LET lambda(s) ==
            LET s1 == insertAndPush(s, u, v, label) IN
            IF label = PT /\ ~hasEdge(s1.graph, v, u, PTBar)
            THEN insertAndPush(s1, v, u, PTBar)
            ELSE IF label = Copy /\ ~hasEdge(s1.graph, v, u, CopyBar)
            THEN insertAndPush(s1, v, u, CopyBar)
            ELSE s1
    IN  The({lambda(s) : s \in {st}})

\* addEdge that pushes the twin without testing whether it is present
addEdgeTwinUnguarded(st, u, v, label) ==
    IF ~hasEdge(st.graph, u, v, label)
    THEN LET s1 == insertAndPush(st, u, v, label) IN
         IF label = PT THEN insertAndPush(s1, v, u, PTBar)
         ELSE IF label = Copy THEN insertAndPush(s1, v, u, CopyBar)
         ELSE s1
    ELSE st

\* addEdge that supplies the missing twin of a PT or Copy edge already present
addEdgeRepairs(st, u, v, label) ==
    LET lambda(s) ==
            IF ~hasEdge(s.graph, u, v, label)
            THEN LET s1 == insertAndPush(s, u, v, label) IN
                 IF label = PT
                 THEN IF ~hasEdge(s1.graph, v, u, PTBar)
                      THEN insertAndPush(s1, v, u, PTBar)
                      ELSE s1
                 ELSE IF label = Copy
                 THEN IF ~hasEdge(s1.graph, v, u, CopyBar)
                      THEN insertAndPush(s1, v, u, CopyBar)
                      ELSE s1
                 ELSE s1
            ELSE IF label = PT /\ ~hasEdge(s.graph, v, u, PTBar)
                 THEN insertAndPush(s, v, u, PTBar)
            ELSE IF label = Copy /\ ~hasEdge(s.graph, v, u, CopyBar)
                 THEN insertAndPush(s, v, u, CopyBar)
            ELSE s
    IN  The({lambda(s) : s \in {st}})

\* addEdge that pushes the twin of a new PT or Copy edge without inserting it
addEdgeTwinPushedOnly(st, u, v, label) ==
    LET pushOnly(s, a, b, l) ==
            [s EXCEPT !.workList = push(s.workList, CFLREdge(a, b, l)),
                      !.pushed   = notePush(s.pushed, CFLREdge(a, b, l))]
        lambda(s) ==
            IF ~hasEdge(s.graph, u, v, label)
            THEN LET s1 == insertAndPush(s, u, v, label) IN
                 IF label = PT
                 THEN IF ~hasEdge(s1.graph, v, u, PTBar)
                      THEN pushOnly(s1, v, u, PTBar)
                      ELSE s1
                 ELSE IF label = Copy
                 THEN IF ~hasEdge(s1.graph, v, u, CopyBar)
                      THEN pushOnly(s1, v, u, CopyBar)
                      ELSE s1
                 ELSE s1
            ELSE s
    IN  The({lambda(s) : s \in {st}})

\* addEdge that inserts the twin of a new PT or Copy edge without pushing it
addEdgeTwinNotPushed(st, u, v, label) ==
    LET insertOnly(s, a, b, l) ==
            [s EXCEPT !.graph = graphAddEdge(s.graph, a, b, l)]
        lambda(s) ==
            IF ~hasEdge(s.graph, u, v, label)
            THEN LET s1 == insertAndPush(s, u, v, label) IN
                 IF label = PT
                 THEN IF ~hasEdge(s1.graph, v, u, PTBar)
                      THEN insertOnly(s1, v, u, PTBar)
                      ELSE s1
                 ELSE IF label = Copy
                 THEN IF ~hasEdge(s1.graph, v, u, CopyBar)
                      THEN insertOnly(s1, v, u, CopyBar)
                      ELSE s1
                 ELSE s1
            ELSE s
    IN  The({lambda(s) : s \in {st}})

\* the lambda addEdge of solve(), without the snapshot
addEdgeBody(st, u, v, label) ==
    LET lambda(s) ==
            IF ~hasEdge(s.graph, u, v, label)
            THEN LET s1 == insertAndPush(s, u, v, label) IN
                 IF label = PT
                 THEN IF ~hasEdge(s1.graph, v, u, PTBar)
                      THEN insertAndPush(s1, v, u, PTBar)
                      ELSE s1
                 ELSE IF label = Copy
                 THEN IF ~hasEdge(s1.graph, v, u, CopyBar)
                      THEN insertAndPush(s1, v, u, CopyBar)
                      ELSE s1
                 ELSE s1
            ELSE s
    IN  The({lambda(s) : s \in {st}})

\* one completed call of the lambda addEdge
addEdge(st, u, v, label) ==
    LET snap(r) == [r EXCEPT !.snaps = Append(r.snaps, r.graph)] IN
    The({snap(r) : r \in {addEdgeBody(st, u, v, label)}})

-----------------------------------------------------------------------------
(* The range-for loops of the drain loop.  A loop walks one adjacency set  *)
(* (in ascending node order here) and calls addEdge for each member; no    *)
(* call inserts into the set being walked, since the inserted labels       *)
(* differ from the walked label or the edge is already present.            *)

MinOf(S) == CHOOSE x \in S : \A y \in S : x <= y

\* for (unsigned w : ws) addEdge(u, w, label);
RECURSIVE addEdgesTo(_, _, _, _)
addEdgesTo(st, u, ws, label) ==
    LET loop(rest) ==
            IF rest = {} THEN st
            ELSE LET step(w) ==
                         addEdgesTo(addEdge(st, u, w, label), u, rest \ {w}, label)
                 IN  The({step(w) : w \in {MinOf(rest)}})
    IN  The({loop(rest) : rest \in {ws}})

\* for (unsigned w : ws) addEdge(w, v, label);
RECURSIVE addEdgesFrom(_, _, _, _)
addEdgesFrom(st, ws, v, label) ==
    LET loop(rest) ==
            IF rest = {} THEN st
            ELSE LET step(w) ==
                         addEdgesFrom(addEdge(st, w, v, label), rest \ {w}, v, label)
                 IN  The({step(w) : w \in {MinOf(rest)}})
    IN  The({loop(rest) : rest \in {ws}})

\* unary rule that orients the PT edge from the object to the pointer
matchUnaryReversed(st, u, v, lbl) ==
    IF lbl = AddrBar THEN addEdge(st, v, u, PT) ELSE st

\* unary rule that also inserts the Addr inverse of the popped AddrBar edge
matchUnaryEmitsAddr(st, u, v, lbl) ==
    IF lbl = AddrBar THEN addEdge(addEdge(st, u, v, PT), v, u, Addr) ELSE st

\* Unary production: AddrBar -> PT
matchUnary(st, u, v, lbl) ==
    IF lbl = AddrBar THEN addEdge(st, u, v, PT) ELSE st

\* drain loop without the match-right phase
matchRightSkipped(st, u, v, lbl) == st

\* match right that reads CopyBar(u, v) as if it were Copy(u, v)
matchRightCopyBarAsCopy(st, u, v, lbl) ==
    LET caseA(s) ==
            IF succCount(s.graph, v)
            THEN IF lbl = CopyBar    THEN addEdgesTo(s, v, succs(s.graph, u, PT), PT)
                 ELSE IF lbl = Store THEN addEdgesTo(s, u, succs(s.graph, v, PT), PV)
                 ELSE IF lbl = PTBar THEN addEdgesTo(s, u, succs(s.graph, v, Load), VP)
                 ELSE IF lbl = PV    THEN addEdgesTo(s, u, succs(s.graph, v, VP), Copy)
                 ELSE s
            ELSE s
    IN  The({caseA(s) : s \in {st}})

\* match right whose rule PV . VP yields a PT edge to the load destination
matchRightLoadYieldsPT(st, u, v, lbl) ==
    LET caseA(s) ==
            IF succCount(s.graph, v)
            THEN IF lbl = CopyBar    THEN addEdgesTo(s, u, succs(s.graph, v, PT), PT)
                 ELSE IF lbl = Store THEN addEdgesTo(s, u, succs(s.graph, v, PT), PV)
                 ELSE IF lbl = PTBar THEN addEdgesTo(s, u, succs(s.graph, v, Load), VP)
                 ELSE IF lbl = PV    THEN addEdgesTo(s, u, succs(s.graph, v, VP), PT)
                 ELSE s
            ELSE s
    IN  The({caseA(s) : s \in {st}})

\* Case A, match right (u -> v -> w): the popped edge is the left operand
matchRight(st, u, v, lbl) ==
    LET caseA(s) ==
            IF succCount(s.graph, v)
            THEN IF lbl = CopyBar    THEN addEdgesTo(s, u, succs(s.graph, v, PT), PT)
                 ELSE IF lbl = Store THEN addEdgesTo(s, u, succs(s.graph, v, PT), PV)
                 ELSE IF lbl = PTBar THEN addEdgesTo(s, u, succs(s.graph, v, Load), VP)
                 ELSE IF lbl = PV    THEN addEdgesTo(s, u, succs(s.graph, v, VP), Copy)
                 ELSE s
            ELSE s
    IN  The({caseA(s) : s \in {st}})

\* drain loop without the match-left phase
matchLeftSkipped(st, u, v, lbl) == st

\* match left that leaves the popped node itself out of the predecessors
matchLeftNoSelfLoop(st, u, v, lbl) ==
    LET viaStore(s1) == addEdgesFrom(s1, preds(s1.graph, u, Store) \ {u}, v, PV)
        caseB(s) ==
            IF predCount(s.graph, u)
            THEN IF lbl = PT
                 THEN The({viaStore(s1) :
                              s1 \in {addEdgesFrom(s, preds(s.graph, u, CopyBar) \ {u}, v, PT)}})
                 ELSE IF lbl = Load THEN addEdgesFrom(s, preds(s.graph, u, PTBar) \ {u}, v, VP)
                 ELSE IF lbl = VP   THEN addEdgesFrom(s, preds(s.graph, u, PV) \ {u}, v, Copy)
                 ELSE s
            ELSE s
    IN  The({caseB(s) : s \in {st}})

\* Case B, match left (w -> u -> v): the popped edge is the right operand
matchLeft(st, u, v, lbl) ==
    LET viaStore(s1) == addEdgesFrom(s1, preds(s1.graph, u, Store), v, PV)
        caseB(s) ==
            IF predCount(s.graph, u)
            THEN IF lbl = PT
                 THEN The({viaStore(s1) :
                              s1 \in {addEdgesFrom(s, preds(s.graph, u, CopyBar), v, PT)}})
                 ELSE IF lbl = Load THEN addEdgesFrom(s, preds(s.graph, u, PTBar), v, VP)
                 ELSE IF lbl = VP   THEN addEdgesFrom(s, preds(s.graph, u, PV), v, Copy)
                 ELSE s
            ELSE s
    IN  The({caseB(s) : s \in {st}})

\* the body of the drain loop for the popped edge
processEdge(st, edge) ==
    LET u   == edge[1]
        v   == edge[2]
        lbl == edge[3]
        s1  == matchUnary(st, u, v, lbl)
        s2  == matchRight(s1, u, v, lbl)
    IN  matchLeft(s2, u, v, lbl)

\* iteration that takes the popped edge out of the graph too
iterationConsumes(g, wl, ps, edge) ==
    processEdge(SolverSt(g \ {edge}, pop(wl, edge), ps), edge)

\* one iteration of the drain loop that pops edge from the state (g, wl, ps)
iteration(g, wl, ps, edge) == processEdge(SolverSt(g, pop(wl, edge), ps), edge)

-----------------------------------------------------------------------------
(* Initial graphs: what buildGraph() may leave in *graph before solve()    *)

\* every edge set over V with at most k edges
RECURSIVE SmallGraphs(_, _)
SmallGraphs(V, k) ==
    IF k = 0 THEN {{}}
    ELSE LET P == SmallGraphs(V, k - 1) IN
         P \cup {g \cup {e} : g \in P, e \in EdgesOver(V)}

\* the end-to-end scenarios, for nodes given by name
S1Graph(p, q, a) ==
    {CFLREdge(p, a, AddrBar), CFLREdge(q, p, Copy), CFLREdge(p, q, CopyBar)}

S3Graph(a, b, c, obj) ==
    {CFLREdge(a, obj, AddrBar),
     CFLREdge(a, b, Copy), CFLREdge(b, a, CopyBar),
     CFLREdge(b, c, Copy), CFLREdge(c, b, CopyBar)}

S5Graph(p, q, o1, o2) ==
    {CFLREdge(p, o1, AddrBar), CFLREdge(q, o2, AddrBar),
     CFLREdge(p, q, Copy), CFLREdge(q, p, Copy),
     CFLREdge(q, p, CopyBar), CFLREdge(p, q, CopyBar)}

S6Graph(p, o, r) ==
    {CFLREdge(p, o, AddrBar), CFLREdge(p, p, Store), CFLREdge(p, r, Load)}

\* node ids the scenarios are rendered with
ScenNodes == 0 .. 3

Distinct3(a, b, c) == a # b /\ a # c /\ b # c

Distinct4(a, b, c, d) == Distinct3(a, b, c) /\ a # d /\ b # d /\ c # d

ScenarioGraphs ==
    {S1Graph(p, q, a) : <<p, q, a>> \in
        {t \in ScenNodes \X ScenNodes \X ScenNodes : Distinct3(t[1], t[2], t[3])}}
    \cup
    {S6Graph(p, o, r) : <<p, o, r>> \in
        {t \in ScenNodes \X ScenNodes \X ScenNodes : Distinct3(t[1], t[2], t[3])}}
    \cup
    {S3Graph(a, b, c, obj) : <<a, b, c, obj>> \in
        {t \in ScenNodes \X ScenNodes \X ScenNodes \X ScenNodes :
            Distinct4(t[1], t[2], t[3], t[4])}}
    \cup
    {S5Graph(p, q, o1, o2) : <<p, q, o1, o2>> \in
        {t \in ScenNodes \X ScenNodes \X ScenNodes \X ScenNodes :
            Distinct4(t[1], t[2], t[3], t[4])}}

InitGraphs == SmallGraphs(Nodes, MaxInitEdges) \cup ScenarioGraphs

-----------------------------------------------------------------------------
(* The state machine *)

Init ==
    /\ g0 \in InitGraphs
    /\ graph = g0
    /\ workList = EmptyBag
    /\ pushed = EmptyBag
    /\ pc = "seed"

\* seeding that leaves the AddrBar edges out of the worklist
SeedWithoutAddrBar ==
    /\ pc = "seed"
    /\ workList' = workList (+) SetToBag({e \in graph : e[3] # AddrBar})
    /\ pushed' = pushed (+) SetToBag({e \in graph : e[3] # AddrBar})
    /\ pc' = "drain"
    /\ UNCHANGED <<graph, g0>>

\* 1. Initialization: push every edge of the graph, each once
Seed ==
    /\ pc = "seed"
    /\ workList' = workList (+) SetToBag(graph)
    /\ pushed' = pushed (+) SetToBag(graph)
    /\ pc' = "drain"
    /\ UNCHANGED <<graph, g0>>

\* 2. one iteration of while (!workList.empty()): pop an edge, apply the rules
Pop ==
    /\ pc = "drain"
    /\ ~empty(workList)
    /\ \E edge \in BagToSet(workList) :
          \E r \in {iteration(graph, workList, pushed, edge)} :
          /\ graph' = r.graph
          /\ workList' = r.workList
          /\ pushed' = r.pushed
    /\ UNCHANGED <<pc, g0>>

\* the drain loop ends on an empty worklist and solve() returns
Return ==
    /\ pc = "drain"
    /\ empty(workList)
    /\ pc' = "done"
    /\ UNCHANGED <<graph, workList, g0, pushed>>

Next == Seed \/ Pop \/ Return

Spec == Init /\ [][Next]_vars

\* solve() is sequential code: a step that can be taken is taken
FairSpec == Spec /\ WF_vars(Next)

\* solve() on the end-to-end scenarios only
InitScenario ==
    /\ g0 \in ScenarioGraphs
    /\ graph = g0
    /\ workList = EmptyBag
    /\ pushed = EmptyBag
    /\ pc = "seed"

ScenarioSpec == InitScenario /\ [][Next]_vars /\ WF_vars(Next)

-----------------------------------------------------------------------------
(* The grammar, stated apart from the solver *)

\* binary productions <<l1, l2, l3>>: l1 . l2 -> l3
Productions ==
    {<<CopyBar, PT, PT>>, <<Store, PT, PV>>, <<PTBar, Load, VP>>, <<PV, VP, Copy>>}

\* results of the unary production AddrBar -> PT on g
UnaryResults(g) == {CFLREdge(e[1], e[2], PT) : e \in {x \in g : x[3] = AddrBar}}

\* results of the binary productions on pairs of edges of g
BinaryResults(g) ==
    UNION {{CFLREdge(e1[1], e2[2], p[3]) :
               e2 \in {x \in g : x[3] = p[2] /\ x[1] = e1[2]}} :
           <<e1, p>> \in {t \in g \X Productions : t[1][3] = t[2][1]}}

ClosedUnderGrammar(g) == UnaryResults(g) \subseteq g /\ BinaryResults(g) \subseteq g

\* the twin a PT, PTBar, Copy or CopyBar edge has under the symmetry discipline
BarOf(label) ==
    IF label = PT THEN PTBar
    ELSE IF label = PTBar THEN PT
    ELSE IF label = Copy THEN CopyBar
    ELSE IF label = CopyBar THEN Copy
    ELSE label

Twin(e) == CFLREdge(e[2], e[1], BarOf(e[3]))

Paired(g) == {e \in g : e[3] \in {PT, PTBar, Copy, CopyBar}}

\* (u,v,PT) iff (v,u,PTBar), and (u,v,Copy) iff (v,u,CopyBar)
Symmetric(g) == \A e \in Paired(g) : Twin(e) \in g

\* the twins of the PT and Copy edges of g
ForwardTwins(g) == {Twin(e) : e \in {x \in g : x[3] \in {PT, Copy}}}

\* the least set containing g that is closed under the grammar and under
\* PT |-> PTBar, Copy |-> CopyBar
RECURSIVE LeastClosure(_)
LeastClosure(g) ==
    LET h == g \cup UnaryResults(g) \cup BinaryResults(g) \cup ForwardTwins(g) IN
    IF h = g THEN g ELSE LeastClosure(h)

\* the (u, v) of the PT edges of g
PTPairs(g) == {<<e[1], e[2]>> : e \in {x \in g : x[3] = PT}}

\* edges the solver inserted
Inserted == graph \ g0

-----------------------------------------------------------------------------
(* Claims *)

\* C1: when solve() has returned, the graph is closed under the unary
\* production AddrBar -> PT and the four binary productions, for every
\* initial graph, self-loops included.
C1_ClosureAtQuiescence == pc = "done" => ClosedUnderGrammar(graph)

\* C1 witness: solve() returned after a binary production was applied to a
\* self-loop pair (u = v = w) and after the unary production was applied
C1_Witness ==
    /\ pc = "done"
    /\ \E n \in NodesOf(graph) :
          /\ {CFLREdge(n, n, Store), CFLREdge(n, n, PT)} \subseteq graph
          /\ CFLREdge(n, n, PV) \in Inserted
    /\ \E e \in Inserted : e[3] = PT /\ CFLREdge(e[1], e[2], AddrBar) \in g0

\* the initial graph follows the frontend contract of C2
FrontendContract(g) ==
    /\ \A e \in g : e[3] \in {Copy, CopyBar} => Twin(e) \in g
    /\ \A e \in g : e[3] \notin {PT, PTBar}

\* C2: for an initial graph that follows the frontend contract, no edge outside
\* the least closure of the initial graph is ever inserted, and the graph is
\* that least closure when solve() has returned.
C2_LeastFixpoint ==
    FrontendContract(g0) =>
        /\ graph \subseteq LeastClosure(g0)
        /\ pc = "done" => graph = LeastClosure(g0)

\* C2 witness: a contract-following run returned having derived PT, PV, VP,
\* Copy and CopyBar edges
C2_Witness ==
    /\ pc = "done"
    /\ FrontendContract(g0)
    /\ \A l \in {PT, PTBar, PV, VP, Copy, CopyBar} : \E e \in Inserted : e[3] = l

\* C3 as stated: the final graph is symmetric for every initial graph
C3_SymmetryAnyInitialGraph == pc = "done" => Symmetric(graph)

\* C3 amended: when solve() has returned, a PT, PTBar, Copy or CopyBar edge
\* whose twin is absent was in the initial graph, which lacked the twin too;
\* so a symmetric initial graph gives a symmetric final graph.
C3_SymmetryUpToInitialEdges ==
    pc = "done" =>
        /\ \A e \in Paired(graph) :
              Twin(e) \notin graph => (e \in g0 /\ Twin(e) \notin g0)
        /\ Symmetric(g0) => Symmetric(graph)

\* C3 witness: solve() returned on a symmetric initial graph after inserting
\* PT and Copy edges
C3_Witness ==
    /\ pc = "done"
    /\ Symmetric(g0)
    /\ \E e \in Inserted : e[3] = PT
    /\ \E e \in Inserted : e[3] = Copy

\* the graphs after each completed call of addEdge in the iteration that pops
\* edge from the current state, preceded by the graph before the iteration
CallSnaps(edge) == <<graph>> \o iteration(graph, workList, pushed, edge).snaps

\* C4: if the initial graph is symmetric, the graph is symmetric at the end of
\* seeding, at the end of every iteration of the drain loop and after every
\* completed call of addEdge within the next iteration, whichever edge it pops.
C4_SymmetryEveryStep ==
    Symmetric(g0) =>
        /\ Symmetric(graph)
        /\ pc = "drain" =>
              \A edge \in BagToSet(workList) :
                 \A i \in 1 .. Len(CallSnaps(edge)) : Symmetric(CallSnaps(edge)[i])

\* C4 witness: in a run from a symmetric initial graph that has inserted a Copy
\* edge, a pending edge whose iteration inserts a PT edge by a call of addEdge
C4_Witness ==
    /\ pc = "drain"
    /\ Symmetric(g0)
    /\ \E e \in Inserted : e[3] = Copy
    /\ \E edge \in BagToSet(workList) :
          /\ Len(CallSnaps(edge)) >= 2
          /\ \E e \in CallSnaps(edge)[2] \ CallSnaps(edge)[1] : e[3] = PT

\* C5: solve() returns on every initial graph: the drain loop reaches the
\* empty worklist.
C5_Termination == <>(pc = "done")

\* C5 witness: solve() returned on a graph with a Copy cycle between two nodes,
\* after propagating points-to edges around it
C5_Witness ==
    /\ pc = "done"
    /\ \E p \in NodesOf(g0), q \in NodesOf(g0) :
          /\ p # q
          /\ {CFLREdge(p, q, Copy), CFLREdge(q, p, Copy),
              CFLREdge(p, q, CopyBar), CFLREdge(q, p, CopyBar)} \subseteq g0
          /\ \E e \in Inserted : e[3] = PT /\ e[1] = p
          /\ \E e \in Inserted : e[3] = PT /\ e[1] = q

\* solve() run to the end with one fixed choice of the edge popped next
RECURSIVE RunToEnd(_, _)
RunToEnd(g, wl) ==
    IF empty(wl) THEN g
    ELSE LET edge == CHOOSE e \in BagToSet(wl) : TRUE
             r    == iteration(g, wl, EmptyBag, edge)
         IN  RunToEnd(r.graph, r.workList)

\* C6: whatever edge each iteration pops, the final graph equals the final
\* graph of the run from the same initial graph that pops in one fixed order.
C6_OrderIndependence == pc = "done" => graph = RunToEnd(g0, SetToBag(g0))

\* C6 witness: solve() returned on an initial graph of several edges after
\* inserting edges, so that pop orders differ
C6_Witness ==
    /\ pc = "done"
    /\ Cardinality(g0) >= 3
    /\ Cardinality(Inserted) >= 3

\* the calls of addEdge in the next iteration only add edges
CallsOnlyAdd ==
    pc = "drain" =>
        \A edge \in BagToSet(workList) :
           \A i \in 1 .. (Len(CallSnaps(edge)) - 1) :
              CallSnaps(edge)[i] \subseteq CallSnaps(edge)[i + 1]

\* C7: every step keeps every edge of the graph (seeding, an iteration, and
\* each call of addEdge within it), so the initial edges are always present.
C7_MonotoneGrowth ==
    /\ [][graph \subseteq graph']_vars
    /\ [](CallsOnlyAdd /\ g0 \subseteq graph)

\* C7 witness: solve() returned with the initial edges and inserted ones
C7_Witness == pc = "done" /\ g0 # {} /\ Inserted # {}

\* C8: once seeded, the pushed edges are exactly the edges of the graph, each
\* pushed exactly once; so the number of pushes is the number of edges, at most
\* |V| * |V| * 10.
C8_EnqueuedExactlyOnce ==
    pc # "seed" =>
        /\ BagToSet(pushed) = graph
        /\ \A e \in graph : CopiesIn(e, pushed) = 1
        /\ BagCardinality(pushed) = Cardinality(graph)
        /\ BagCardinality(pushed)
              <= Cardinality(NodesOf(g0)) * Cardinality(NodesOf(g0)) * Cardinality(Labels)

\* C8 witness: solve() returned after inserting a PT edge whose PTBar twin was
\* an initial edge, so that the twin was pushed by seeding only
C8_Witness ==
    /\ pc = "done"
    /\ \E e \in Inserted : e[3] = PT /\ Twin(e) \in g0

\* the initial graph is scenario S1 for some distinct p, q, a
IsS1(p, q, a) == Distinct3(p, q, a) /\ g0 = S1Graph(p, q, a)

\* C9 as stated: S1 ends with the PT edges {(p,a), (q,a)}
C9_S1AsStated ==
    \A p \in ScenNodes, q \in ScenNodes, a \in ScenNodes :
        (pc = "done" /\ IsS1(p, q, a)) => PTPairs(graph) = {<<p, a>>, <<q, a>>}

\* C9 amended: S1 ends with the PT edges {(p,a)}: Copy(q,p) with CopyBar(p,q)
\* carries the targets of q to p, and q has none.
C9_S1PointsTo ==
    \A p \in ScenNodes, q \in ScenNodes, a \in ScenNodes :
        (pc = "done" /\ IsS1(p, q, a)) => PTPairs(graph) = {<<p, a>>}

\* C9 witness: solve() returned on scenario S1
C9_Witness ==
    /\ pc = "done"
    /\ \E p \in ScenNodes, q \in ScenNodes, a \in ScenNodes : IsS1(p, q, a)
    /\ \E e \in Inserted : e[3] = PT

\* the initial graph is scenario S5 for some distinct p, q, o1, o2
IsS5(p, q, o1, o2) == Distinct4(p, q, o1, o2) /\ g0 = S5Graph(p, q, o1, o2)

\* C10: from scenario S5 solve() returns, and it returns with the PT edges
\* {(p,o1), (p,o2), (q,o1), (q,o2)}.
C10_S5CopyCycle ==
    (pc = "seed" /\ \E p \in ScenNodes, q \in ScenNodes, o1 \in ScenNodes,
                       o2 \in ScenNodes : IsS5(p, q, o1, o2))
        ~> (/\ pc = "done"
            /\ \E p \in ScenNodes, q \in ScenNodes, o1 \in ScenNodes, o2 \in ScenNodes :
                  /\ IsS5(p, q, o1, o2)
                  /\ PTPairs(graph) = {<<p, o1>>, <<p, o2>>, <<q, o1>>, <<q, o2>>})

\* C10 witness: solve() returned on scenario S5
C10_Witness ==
    /\ pc = "done"
    /\ \E p \in ScenNodes, q \in ScenNodes, o1 \in ScenNodes, o2 \in ScenNodes :
          IsS5(p, q, o1, o2)
    /\ Cardinality(PTPairs(graph)) = 4

\* the initial graph is scenario S6 for some distinct p, o, r
IsS6(p, o, r) == Distinct3(p, o, r) /\ g0 = S6Graph(p, o, r)

\* the edges scenario S6 must end with: PT(p,o), then PV(p,o) from the
\* self-loop Store(p,p), VP(o,r), Copy(p,r) with CopyBar(r,p), and PT(r,o)
S6Derived(p, o, r) ==
    {CFLREdge(p, o, PT), CFLREdge(o, p, PTBar),
     CFLREdge(p, o, PV), CFLREdge(o, r, VP),
     CFLREdge(p, r, Copy), CFLREdge(r, p, CopyBar),
     CFLREdge(r, o, PT), CFLREdge(o, r, PTBar)}

\* C11: when solve() has returned on scenario S6, the graph contains PT(p,o),
\* PV(p,o) derived from the self-loop Store(p,p), VP(o,r), Copy(p,r), its
\* inverse CopyBar(r,p) and PT(r,o); the PT edges are exactly (p,o) and (r,o).
C11_S6SelfStoreLoad ==
    \A p \in ScenNodes, o \in ScenNodes, r \in ScenNodes :
        (pc = "done" /\ IsS6(p, o, r)) =>
            /\ S6Derived(p, o, r) \subseteq graph
            /\ PTPairs(graph) = {<<p, o>>, <<r, o>>}

\* C11 witness: solve() returned on scenario S6 having inserted PV(p,o) and
\* Copy(p,r)
C11_Witness ==
    /\ pc = "done"
    /\ \E p \in ScenNodes, o \in ScenNodes, r \in ScenNodes :
          /\ IsS6(p, o, r)
          /\ {CFLREdge(p, o, PV), CFLREdge(p, r, Copy)} \subseteq Inserted

\* initial PT and Copy edges whose twin the initial graph lacks
OneSided(g) == {e \in g : e[3] \in {PT, Copy} /\ Twin(e) \notin g}

\* the least set containing g that is closed under the grammar and under the
\* twins of the PT and Copy edges that are not edges of init
RECURSIVE ClosureWithoutRepair(_, _)
ClosureWithoutRepair(g, init) ==
    LET h == g \cup UnaryResults(g) \cup BinaryResults(g) \cup ForwardTwins(g \ init) IN
    IF h = g THEN g ELSE ClosureWithoutRepair(h, init)

\* a call of addEdge for an edge of the graph changes neither graph nor worklist
AddEdgeOfPresentEdgeIsNoOp ==
    \A st \in {SolverSt(graph, workList, pushed)} :
        \A e \in graph : addEdgeBody(st, e[1], e[2], e[3]) = st

\* C12: a call of addEdge for an edge already present changes nothing and
\* inserts no inverse; so the inverse of an initial Copy or PT edge that the
\* initial graph lacks is absent in every state, and the graph never holds more
\* than the grammar derives without those inverses (it holds exactly that when
\* solve() has returned).
C12_OneSidedNeverRepaired ==
    /\ AddEdgeOfPresentEdgeIsNoOp
    /\ \A e \in OneSided(g0) : Twin(e) \notin graph
    /\ \A closure \in {ClosureWithoutRepair(g0, g0)} :
          /\ graph \subseteq closure
          /\ pc = "done" => graph = closure

\* C12 witness: solve() returned on an initial graph with Copy(u,v) and without
\* CopyBar(v,u), having inserted PT(u,o) and no PT(v,o)
C12_Witness ==
    /\ pc = "done"
    /\ \E e \in OneSided(g0) :
          /\ e[3] = Copy
          /\ \E t \in Inserted :
                /\ t[3] = PT
                /\ t[1] = e[1]
                /\ CFLREdge(e[2], t[2], PT) \notin graph

\* labels the frontend alone produces, and labels the solver inserts
TerminalLabels == {Addr, AddrBar, Store, Load}

SolverLabels == {PT, PTBar, PV, VP, Copy, CopyBar}

\* the edges of g with a label in ls
WithLabels(g, ls) == {e \in g : e[3] \in ls}

\* what one call of addEdge may add: nothing, or the edge of a label the rules
\* produce, together with its inverse only if that label is PT or Copy
OneCallAdds(diff) ==
    \/ diff = {}
    \/ \E e \in diff :
          /\ e[3] \in {PT, PV, VP, Copy}
          /\ diff \subseteq (IF e[3] \in {PT, Copy} THEN {e, Twin(e)} ELSE {e})

\* C13: in every state the Addr, AddrBar, Store and Load edges are those of the
\* initial graph and every inserted edge is labelled PT, PTBar, PV, VP, Copy or
\* CopyBar; each call of addEdge in the next iteration adds at most the edge it
\* was called with, plus the inverse edge only when that edge is PT or Copy.
C13_TerminalLabelsUnchanged ==
    /\ WithLabels(graph, TerminalLabels) = WithLabels(g0, TerminalLabels)
    /\ \A e \in Inserted : e[3] \in SolverLabels
    /\ \A e \in Inserted : e[3] \in {PTBar, CopyBar} => Twin(e) \in Inserted
    /\ pc = "drain" =>
          \A edge \in BagToSet(workList) :
             \A sn \in {CallSnaps(edge)} :
                \A i \in 1 .. (Len(sn) - 1) : OneCallAdds(sn[i + 1] \ sn[i])

\* C13 witness: solve() returned on an initial graph with AddrBar, Store and
\* Load edges, having inserted edges of all six solver labels
C13_Witness ==
    /\ pc = "done"
    /\ \A l \in {AddrBar, Store, Load} : \E e \in g0 : e[3] = l
    /\ \A l \in SolverLabels : \E e \in Inserted : e[3] = l
    /\ WithLabels(graph, TerminalLabels) = WithLabels(g0, TerminalLabels)

\* C14 as stated: once seeded, the worklist is empty exactly when the graph is
\* saturated
C14_SaturationIffEmpty ==
    pc # "seed" => (empty(workList) <=> ClosedUnderGrammar(graph))

\* C14 amended: once seeded, an empty worklist implies a saturated graph; a
\* saturated graph may still have pending edges, and then no iteration,
\* whichever pending edge it pops, inserts an edge.
C14_EmptyImpliesSaturated ==
    pc # "seed" =>
        /\ empty(workList) => ClosedUnderGrammar(graph)
        /\ ClosedUnderGrammar(graph) =>
              \A edge \in BagToSet(workList) :
                 iteration(graph, workList, pushed, edge).graph = graph

\* C14 witness: after insertions the graph is saturated while edges are still
\* pending in the worklist
C14_Witness ==
    /\ pc = "drain"
    /\ Inserted # {}
    /\ ClosedUnderGrammar(graph)
    /\ ~empty(workList)

\* edges waiting in the worklist, and edges of the graph already popped
Pending == BagToSet(workList)

Processed == graph \ Pending

\* how often edge e has been popped so far
PopCount(e) == CopiesIn(e, pushed) - CopiesIn(e, workList)

\* the edges a rule applied to edges of the graph would insert: the calls of
\* addEdge that find their edge absent
CallsThatInsert == (UnaryResults(graph) \cup BinaryResults(graph)) \ graph

\* after such a call of addEdge from the current state the edge is in the
\* graph and pending once, and every pending edge is an edge of the graph
PushedAfterInserted ==
    \A e \in CallsThatInsert :
        \A r \in {addEdgeBody(SolverSt(graph, workList, pushed), e[1], e[2], e[3])} :
            /\ e \in r.graph
            /\ CopiesIn(e, r.workList) = 1
            /\ BagToSet(r.workList) \subseteq r.graph

\* C15: once seeded, every pending edge is an edge of the graph and every edge
\* of the graph is either pending (once, never popped) or was popped exactly
\* once; a call of addEdge leaves no pending edge outside the graph; and the
\* results of the productions on popped edges are in the graph, each popped
\* edge having seen the edges it joins with in the adjacency maps.
C15_WorklistCoversGraph ==
    pc # "seed" =>
        /\ Pending \subseteq graph
        /\ \A e \in graph :
              \/ CopiesIn(e, workList) = 1 /\ PopCount(e) = 0
              \/ CopiesIn(e, workList) = 0 /\ PopCount(e) = 1
        /\ PushedAfterInserted
        /\ UnaryResults(Processed) \subseteq graph
        /\ BinaryResults(Processed) \subseteq graph

\* C15 witness: in the drain loop some inserted edges are pending, some were
\* popped, and an inserted edge is the result of a production on popped edges
C15_Witness ==
    /\ pc = "drain"
    /\ Inserted \cap Pending # {}
    /\ Inserted \cap Processed # {}
    /\ BinaryResults(Processed) \cap Inserted # {}

\* the targets of the AddrBar edges of g: the address-taken objects
AddressTaken(g) == {e[2] : e \in {x \in g : x[3] = AddrBar}}

\* C16: if the initial graph has no PT and no PTBar edge, then in every state
\* the target of every PT edge is the target of an initial AddrBar edge; so an
\* initial graph without AddrBar edges never gets a PT edge.
C16_PointsToAddressTaken ==
    (\A e \in g0 : e[3] \notin {PT, PTBar}) =>
        /\ \A e \in graph : e[3] = PT => e[2] \in AddressTaken(g0)
        /\ AddressTaken(g0) = {} => PTPairs(graph) = {}

\* C16 witness: from an initial graph without PT and PTBar edges solve()
\* returned with a PT edge that is not the image of an AddrBar edge, carried
\* there by CopyBar . PT -> PT
C16_Witness ==
    /\ pc = "done"
    /\ \A e \in g0 : e[3] \notin {PT, PTBar}
    /\ \E e \in Inserted :
          /\ e[3] = PT
          /\ CFLREdge(e[1], e[2], AddrBar) \notin g0
          /\ e[2] \in AddressTaken(g0)

\* solve() called a second time: the graph is the one a completed solve() left
\* for the initial graph g0, the worklist is empty again
InitSecondRun ==
    /\ g0 \in InitGraphs
    /\ graph = RunToEnd(g0, SetToBag(g0))
    /\ workList = EmptyBag
    /\ pushed = EmptyBag
    /\ pc = "seed"

SecondRunSpec == InitSecondRun /\ [][Next]_vars

\* C17: a second run of solve() on the graph left by a completed run seeds and
\* drains the worklist without inserting an edge: no step changes the graph,
\* for every initial graph of the first run.
C17_SecondRunInsertsNothing == [][graph' = graph]_vars

\* C17 witness: the second run returned on a graph that the first run had
\* extended and that has operands for the unary and for a binary production
C17_Witness ==
    /\ pc = "done"
    /\ graph # g0
    /\ UnaryResults(graph) # {}
    /\ BinaryResults(graph) # {}

====
